---- MODULE Spec2Model ----
(***************************************************************************)
(* Room booking engine: Booking.clean / Booking.save / Booking.cancel      *)
(* (booking/models.py), BookingCreateSerializer (booking/serializers.py)   *)
(* and the create / cancel request handlers (booking/views.py).            *)
(*                                                                         *)
(* Request handlers run as concurrent workers.  Every database statement   *)
(* of a handler is one atomic step; the steps of different handlers        *)
(* interleave.  transaction.atomic() in BookingCreateView.post makes the   *)
(* handler's single INSERT all-or-nothing; it takes no lock on the rows    *)
(* its earlier SELECTs have read (no select_for_update, and the default    *)
(* isolation level of the database is left as it is), so other handlers'   *)
(* statements may fall between them.  BookingCancelView.post opens no      *)
(* transaction at all.  unique_together is enforced by the database at     *)
(* each INSERT and UPDATE; Booking.save calls clean(), not full_clean(),   *)
(* so nothing tests it earlier.                                            *)
(*                                                                         *)
(* Times are seconds since midnight (a TimeField takes HH:MM and HH:MM:SS). *)
(* An id of 0 stands for an absent / None reference: the code tests ids    *)
(* and references by truthiness, and database ids start at 1.  Answers     *)
(* carry the HTTP code and a reason naming the message of the error raised.*)
(***************************************************************************)
EXTENDS Integers, Sequences, FiniteSets, TLC

VARIABLES bookings, members, rooms, pc, inst, resp

vars == <<bookings, members, rooms, pc, inst, resp>>

(***************************************************************************)
(* Bounds                                                                  *)
(***************************************************************************)
NumWorkers == 2
MaxBookings == 2
MaxRooms == 4
MaxCapacity == 5

Workers == 1..NumWorkers

(***************************************************************************)
(* Registry: rooms, users (with profile age), teams                        *)
(***************************************************************************)
NoId == 0

\* the Room table: rooms[id] is the row of room id
InitRooms ==
    << [room_type |-> "private", capacity |-> 1],
       [room_type |-> "conference", capacity |-> 3],
       [room_type |-> "shared_desk", capacity |-> 4] >>

RoomIds == DOMAIN rooms
RoomType == [r \in DOMAIN rooms |-> rooms[r].room_type]
RoomCapacity == [r \in DOMAIN rooms |-> rooms[r].capacity]

UserIds == {1, 2, 3, 4, 5}
Age == <<25, 30, 10, 9, 40>>

TeamIds == {1, 2}
InitMembers == <<{1, 2, 3}, {1, 2, 3, 4}>>

OpenHour == 9
CloseHour == 18
SlotMinutes == 60
MinEffectiveMembers == 3
AdultAge == 10

(***************************************************************************)
(* datetime.time                                                           *)
(***************************************************************************)
time(hour, minute, second) == (hour * 60 + minute) * 60 + second

Hour(t) == t \div 3600

Minute(t) == (t \div 60) % 60

(***************************************************************************)
(* Team metrics                                                            *)
(***************************************************************************)
\* faulty variant, for sensitivity: a member aged exactly AdultAge is left out
get_effective_member_count_Above(mem, t) ==
    Cardinality({u \in mem[t] : Age[u] > AdultAge})

get_effective_member_count(mem, t) ==
    Cardinality({u \in mem[t] : Age[u] >= AdultAge})

get_total_member_count(mem, t) == Cardinality(mem[t])

(***************************************************************************)
(* Booking.clean                                                           *)
(***************************************************************************)
SameSlot(b, c) ==
    /\ b.room = c.room
    /\ b.date = c.date
    /\ b.start_time = c.start_time
    /\ b.end_time = c.end_time

Occupancy(mem, b) ==
    IF b.team # NoId THEN get_total_member_count(mem, b.team) ELSE 1

RECURSIVE SumOccupancy(_, _, _)
SumOccupancy(bks, mem, ids) ==
    IF ids = {} THEN 0
    ELSE LET i == CHOOSE j \in ids : TRUE
         IN  Occupancy(mem, bks[i]) + SumOccupancy(bks, mem, ids \ {i})

\* ids of the active bookings of self's room and slot, self excluded
ExistingBookings(self, bks) ==
    {i \in DOMAIN bks : /\ SameSlot(bks[i], self)
                        /\ bks[i].status = "active"
                        /\ i # self.id}

CleanShape(self) ==
    IF self.user = NoId /\ self.team = NoId THEN "MissingRequester"
    ELSE IF self.user # NoId /\ self.team # NoId THEN "AmbiguousRequester"
    ELSE "ok"

\* start_minutes and end_minutes are computed from the hour and the minute
\* of the two times; their seconds do not enter
CleanTime(self) ==
    LET start_minutes == Hour(self.start_time) * 60 + Minute(self.start_time)
        end_minutes == Hour(self.end_time) * 60 + Minute(self.end_time)
    IN  IF \/ self.start_time < time(OpenHour, 0, 0)
           \/ self.end_time > time(CloseHour, 0, 0)
            THEN "OutsideOperatingHours"
        ELSE IF self.start_time >= self.end_time THEN "InvalidInterval"
        ELSE IF end_minutes - start_minutes # SlotMinutes THEN "NonHourlyDuration"
        ELSE "ok"

CleanRoomType(self, mem) ==
    IF RoomType[self.room] = "private" /\ self.team # NoId
        THEN "RequesterTypeMismatch"
    ELSE IF RoomType[self.room] = "conference" /\ self.user # NoId
        THEN "RequesterTypeMismatch"
    ELSE IF /\ RoomType[self.room] = "conference"
            /\ self.team # NoId
            /\ get_effective_member_count(mem, self.team) < MinEffectiveMembers
        THEN "TeamTooSmall"
    ELSE "ok"

CleanCapacity(self, bks, mem) ==
    IF /\ RoomType[self.room] = "shared_desk"
       /\ SumOccupancy(bks, mem, ExistingBookings(self, bks))
            + Occupancy(mem, self) > RoomCapacity[self.room]
        THEN "CapacityExceeded"
    ELSE "ok"

\* the message of the first ValidationError clean() raises, "ok" if none
clean(self, bks, mem) ==
    IF CleanShape(self) # "ok" THEN CleanShape(self)
    ELSE IF CleanTime(self) # "ok" THEN CleanTime(self)
    ELSE IF CleanRoomType(self, mem) # "ok" THEN CleanRoomType(self, mem)
    ELSE CleanCapacity(self, bks, mem)

(***************************************************************************)
(* Booking.Meta.unique_together, enforced by the database on every write   *)
(***************************************************************************)
\* faulty variant, for sensitivity: the constraint is not enforced
UniqueViolation_NotEnforced(self, bks) == FALSE

\* faulty variant, for sensitivity: the key is enforced for active rows only
UniqueViolation_ActiveOnly(self, bks) ==
    \E i \in DOMAIN bks : /\ i # self.id
                          /\ SameSlot(bks[i], self)
                          /\ bks[i].status = self.status
                          /\ self.status = "active"

UniqueViolation(self, bks) ==
    \E i \in DOMAIN bks : /\ i # self.id
                          /\ SameSlot(bks[i], self)
                          /\ bks[i].status = self.status

(***************************************************************************)
(* Worker state                                                            *)
(***************************************************************************)
NoInst == [id |-> NoId, room |-> NoId, user |-> NoId, team |-> NoId,
           date |-> 0, start_time |-> 0, end_time |-> 0, status |-> "none"]

\* rooms: the room list of an availability answer
NoResp == [op |-> "none", code |-> 0, reason |-> "none", id |-> NoId,
           rooms |-> {}]

Request(room_id, user_id, team_id, date, start_time, end_time) ==
    [room_id |-> room_id, user_id |-> user_id, team_id |-> team_id,
     date |-> date, start_time |-> start_time, end_time |-> end_time]

\* faulty variant, for sensitivity: the row is written with the next day's date
Row_NextDay(self, now) ==
    [room |-> self.room, user |-> self.user, team |-> self.team,
     date |-> self.date + 1, start_time |-> self.start_time,
     end_time |-> self.end_time, status |-> self.status, updated_at |-> now]

\* updated_at (auto_now: a fresh timestamp on every save) is kept as the
\* number of times the row has been written
Row(self, now) ==
    [room |-> self.room, user |-> self.user, team |-> self.team,
     date |-> self.date, start_time |-> self.start_time,
     end_time |-> self.end_time, status |-> self.status, updated_at |-> now]

Finish(p, op, code, reason, id) ==
    /\ pc' = [pc EXCEPT ![p] = "done"]
    /\ resp' = [resp EXCEPT ![p] =
                  [op |-> op, code |-> code, reason |-> reason, id |-> id,
                   rooms |-> {}]]

Init ==
    /\ bookings = <<>>
    /\ members = InitMembers
    /\ rooms = InitRooms
    /\ pc = [p \in Workers |-> "idle"]
    /\ inst = [p \in Workers |-> NoInst]
    /\ resp = [p \in Workers |-> NoResp]

(***************************************************************************)
(* BookingCreateView.post                                                  *)
(***************************************************************************)
\* faulty variant, for sensitivity: the two requester-shape tests are left out
validate_NoShapeTest(data) ==
    IF data.room_id \notin RoomIds THEN "ResourceNotFound"
    ELSE IF data.user_id # NoId /\ data.user_id \notin UserIds THEN "RequesterNotFound"
    ELSE IF data.user_id = NoId /\ data.team_id \notin TeamIds THEN "RequesterNotFound"
    ELSE "ok"

\* BookingCreateSerializer.validate
\* faulty variant, for sensitivity: the requester is looked up before the room
validate_RequesterFirst(data) ==
    IF data.user_id = NoId /\ data.team_id = NoId THEN "MissingRequester"
    ELSE IF data.user_id # NoId /\ data.team_id # NoId THEN "AmbiguousRequester"
    ELSE IF data.user_id # NoId /\ data.user_id \notin UserIds THEN "RequesterNotFound"
    ELSE IF data.user_id = NoId /\ data.team_id \notin TeamIds THEN "RequesterNotFound"
    ELSE IF data.room_id \notin RoomIds THEN "ResourceNotFound"
    ELSE "ok"

validate(data) ==
    IF data.user_id = NoId /\ data.team_id = NoId THEN "MissingRequester"
    ELSE IF data.user_id # NoId /\ data.team_id # NoId THEN "AmbiguousRequester"
    ELSE IF data.room_id \notin RoomIds THEN "ResourceNotFound"
    ELSE IF data.user_id # NoId /\ data.user_id \notin UserIds THEN "RequesterNotFound"
    ELSE IF data.user_id = NoId /\ data.team_id \notin TeamIds THEN "RequesterNotFound"
    ELSE "ok"

\* serializer.is_valid(); on failure the 400 answer of line 66
StartCreate(p, data) ==
    /\ pc[p] \in {"idle", "done"}
    /\ Len(bookings) < MaxBookings
    /\ inst' = [inst EXCEPT ![p] =
                  [id |-> NoId, room |-> data.room_id, user |-> data.user_id,
                   team |-> data.team_id, date |-> data.date,
                   start_time |-> data.start_time, end_time |-> data.end_time,
                   status |-> "active"]]
    /\ IF validate(data) # "ok"
          THEN Finish(p, "create", 400, validate(data), NoId)
          ELSE /\ pc' = [pc EXCEPT ![p] = "create"]
               /\ resp' = [resp EXCEPT ![p] = NoResp]
    /\ UNCHANGED <<bookings, members, rooms>>

\* BookingCreateSerializer.create, the existing_booking.exists() query
\* faulty variant, for sensitivity: cancelled bookings of the requester count
existing_booking_AnyStatus(self, bks) ==
    {i \in DOMAIN bks : /\ bks[i].date = self.date
                        /\ bks[i].start_time = self.start_time
                        /\ bks[i].end_time = self.end_time
                        /\ IF self.user # NoId THEN bks[i].user = self.user
                                               ELSE bks[i].team = self.team}

existing_booking(self, bks) ==
    {i \in DOMAIN bks : /\ bks[i].date = self.date
                        /\ bks[i].start_time = self.start_time
                        /\ bks[i].end_time = self.end_time
                        /\ bks[i].status = "active"
                        /\ IF self.user # NoId THEN bks[i].user = self.user
                                               ELSE bks[i].team = self.team}

CreateCheckExisting(p) ==
    /\ pc[p] = "create"
    /\ IF existing_booking(inst[p], bookings) # {}
          THEN Finish(p, "create", 400, "RequesterAlreadyBooked", NoId)
          ELSE /\ pc' = [pc EXCEPT ![p] = "clean"]
               /\ UNCHANGED resp
    /\ UNCHANGED <<bookings, members, rooms, inst>>

\* Booking.objects.create -> Booking.save -> self.clean()
CreateClean(p) ==
    /\ pc[p] = "clean"
    /\ IF clean(inst[p], bookings, members) # "ok"
          THEN Finish(p, "create", 400, clean(inst[p], bookings, members), NoId)
          ELSE /\ pc' = [pc EXCEPT ![p] = "insert"]
               /\ UNCHANGED resp
    /\ UNCHANGED <<bookings, members, rooms, inst>>

\* Booking.save -> super().save(): the INSERT, then the 201 answer
\* faulty variant, for sensitivity: the row of a failed insert is kept
CreateInsert_NoRollback(p) ==
    /\ pc[p] = "insert"
    /\ Len(bookings) < MaxBookings
    /\ bookings' = Append(bookings, Row(inst[p], 1))
    /\ IF UniqueViolation(inst[p], bookings)
          THEN /\ Finish(p, "create", 400, "IntegrityError", NoId)
               /\ UNCHANGED inst
          ELSE /\ inst' = [inst EXCEPT ![p].id = Len(bookings) + 1]
               /\ Finish(p, "create", 201, "Created", Len(bookings) + 1)
    /\ UNCHANGED <<members, rooms>>

CreateInsert(p) ==
    /\ pc[p] = "insert"
    /\ IF UniqueViolation(inst[p], bookings)
          THEN /\ Finish(p, "create", 400, "IntegrityError", NoId)
               /\ UNCHANGED <<bookings, inst>>
          ELSE /\ Len(bookings) < MaxBookings
               /\ bookings' = Append(bookings, Row(inst[p], 1))
               /\ inst' = [inst EXCEPT ![p].id = Len(bookings) + 1]
               /\ Finish(p, "create", 201, "Created", Len(bookings) + 1)
    /\ UNCHANGED <<members, rooms>>

(***************************************************************************)
(* BookingCancelView.post                                                  *)
(***************************************************************************)
\* faulty variant, for sensitivity: the row is loaded with its date moved to the next day
Load_NextDay(bks, booking_id) ==
    [id |-> booking_id,
     room |-> bks[booking_id].room,
     user |-> bks[booking_id].user,
     team |-> bks[booking_id].team,
     date |-> bks[booking_id].date + 1,
     start_time |-> bks[booking_id].start_time,
     end_time |-> bks[booking_id].end_time,
     status |-> bks[booking_id].status]

\* the Booking instance get_object_or_404 returns
Load(bks, booking_id) ==
    [id |-> booking_id,
     room |-> bks[booking_id].room,
     user |-> bks[booking_id].user,
     team |-> bks[booking_id].team,
     date |-> bks[booking_id].date,
     start_time |-> bks[booking_id].start_time,
     end_time |-> bks[booking_id].end_time,
     status |-> bks[booking_id].status]

\* faulty variant, for sensitivity: the status of the loaded booking is not tested
StartCancel_NoStatusTest(p, booking_id) ==
    /\ pc[p] \in {"idle", "done"}
    /\ IF booking_id \notin DOMAIN bookings
          THEN /\ Finish(p, "cancel", 400, "NotFound", booking_id)
               /\ inst' = [inst EXCEPT ![p] = NoInst]
          ELSE /\ pc' = [pc EXCEPT ![p] = "cancel_clean"]
               /\ resp' = [resp EXCEPT ![p] = NoResp]
               /\ inst' = [inst EXCEPT ![p] = Load(bookings, booking_id)]
    /\ UNCHANGED <<bookings, members, rooms>>

\* get_object_or_404 and the status test; Http404 is an Exception and is
\* answered, with code 400, by the handler's except clause
StartCancel(p, booking_id) ==
    /\ pc[p] \in {"idle", "done"}
    /\ IF booking_id \notin DOMAIN bookings
          THEN /\ Finish(p, "cancel", 400, "NotFound", booking_id)
               /\ inst' = [inst EXCEPT ![p] = NoInst]
          ELSE IF bookings[booking_id].status = "cancelled"
          THEN /\ Finish(p, "cancel", 400, "AlreadyCancelled", booking_id)
               /\ inst' = [inst EXCEPT ![p] = NoInst]
          ELSE /\ pc' = [pc EXCEPT ![p] = "cancel_clean"]
               /\ resp' = [resp EXCEPT ![p] = NoResp]
               /\ inst' = [inst EXCEPT ![p] = Load(bookings, booking_id)]
    /\ UNCHANGED <<bookings, members, rooms>>

\* Booking.cancel: self.status = 'cancelled', then Booking.save -> self.clean()
\* faulty variant, for sensitivity: the cancel saves without validation
CancelClean_NoClean(p) ==
    /\ pc[p] = "cancel_clean"
    /\ pc' = [pc EXCEPT ![p] = "cancel_save"]
    /\ inst' = [inst EXCEPT ![p].status = "cancelled"]
    /\ UNCHANGED <<bookings, members, rooms, resp>>

CancelClean(p) ==
    /\ pc[p] = "cancel_clean"
    /\ IF clean(inst[p], bookings, members) # "ok"
          THEN /\ Finish(p, "cancel", 400, clean(inst[p], bookings, members), inst[p].id)
               /\ inst' = [inst EXCEPT ![p] = NoInst]
          ELSE /\ pc' = [pc EXCEPT ![p] = "cancel_save"]
               /\ inst' = [inst EXCEPT ![p].status = "cancelled"]
               /\ UNCHANGED resp
    /\ UNCHANGED <<bookings, members, rooms>>

\* Booking.save -> super().save(): the UPDATE of every field, then the 200 answer
\* faulty variant, for sensitivity: the save marks every booking cancelled
CancelSave_EveryRow(p) ==
    /\ pc[p] = "cancel_save"
    /\ bookings' = [i \in DOMAIN bookings |->
                      [bookings[i] EXCEPT !.status = "cancelled"]]
    /\ Finish(p, "cancel", 200, "Ok", inst[p].id)
    /\ inst' = [inst EXCEPT ![p] = NoInst]
    /\ UNCHANGED <<members, rooms>>

CancelSave(p) ==
    /\ pc[p] = "cancel_save"
    /\ IF UniqueViolation(inst[p], bookings)
          THEN /\ Finish(p, "cancel", 400, "IntegrityError", inst[p].id)
               /\ UNCHANGED bookings
          ELSE /\ bookings' = [bookings EXCEPT ![inst[p].id] = Row(inst[p], bookings[inst[p].id].updated_at + 1)]
               /\ Finish(p, "cancel", 200, "Ok", inst[p].id)
    /\ inst' = [inst EXCEPT ![p] = NoInst]
    /\ UNCHANGED <<members, rooms>>

(***************************************************************************)
(* Booking.get_available_rooms                                             *)
(***************************************************************************)
\* faulty variant, for sensitivity: cancelled bookings count as overlapping
get_available_rooms_AnyStatus(bks, mem, date, start_time, end_time, room_type) ==
    {r \in RoomIds :
        /\ room_type # "" => RoomType[r] = room_type
        /\ \A i \in DOMAIN bks : ~ /\ bks[i].room = r
                                    /\ bks[i].date = date
                                    /\ bks[i].start_time = start_time
                                    /\ bks[i].end_time = end_time}

\* room_type "" stands for no filter (None, or an empty query parameter)
get_available_rooms(bks, mem, date, start_time, end_time, room_type) ==
    LET room_list ==
            IF room_type # "" THEN {r \in RoomIds : RoomType[r] = room_type}
                              ELSE RoomIds
        overlapping_bookings(r) ==
            {i \in DOMAIN bks : /\ bks[i].room = r
                                /\ bks[i].date = date
                                /\ bks[i].start_time = start_time
                                /\ bks[i].end_time = end_time
                                /\ bks[i].status = "active"}
    IN  {r \in room_list :
            /\ overlapping_bookings(r) = {}
            /\ RoomType[r] = "shared_desk"
                  => SumOccupancy(bks, mem, overlapping_bookings(r))
                        < RoomCapacity[r]}

(***************************************************************************)
(* AvailableRoomsView.get                                                  *)
(*                                                                         *)
(* A slot string is a sequence of characters.  str.split, int() and        *)
(* datetime.time() are modelled on it: time() takes its hour as a C int,   *)
(* raising OverflowError for an hour above 2^31 - 1 and ValueError for an  *)
(* hour outside 0..23.                                                     *)
(***************************************************************************)
DigitValue ==
    ("0" :> 0) @@ ("1" :> 1) @@ ("2" :> 2) @@ ("3" :> 3) @@ ("4" :> 4) @@
    ("5" :> 5) @@ ("6" :> 6) @@ ("7" :> 7) @@ ("8" :> 8) @@ ("9" :> 9)

\* slot.split('-')
RECURSIVE split(_)
split(str) ==
    IF \A i \in DOMAIN str : str[i] # "-" THEN <<str>>
    ELSE LET i == CHOOSE k \in DOMAIN str :
                      str[k] = "-" /\ \A j \in 1..(k - 1) : str[j] # "-"
         IN  <<SubSeq(str, 1, i - 1)>> \o split(SubSeq(str, i + 1, Len(str)))

\* int(part) raises no ValueError
IsInt(part) == part # <<>> /\ \A i \in DOMAIN part : part[i] \in DOMAIN DigitValue

RECURSIVE StripZeros(_)
StripZeros(part) ==
    IF Len(part) > 1 /\ part[1] = "0" THEN StripZeros(Tail(part)) ELSE part

\* the decimal digits of 2^31 - 1, the largest C int
CIntMaxDigits == <<2, 1, 4, 7, 4, 8, 3, 6, 4, 7>>

\* the value of the digit string is above 2^31 - 1
ExceedsCInt(part) ==
    LET d == StripZeros(part)
    IN  \/ Len(d) > Len(CIntMaxDigits)
        \/ /\ Len(d) = Len(CIntMaxDigits)
           /\ \E k \in DOMAIN d :
                 /\ DigitValue[d[k]] > CIntMaxDigits[k]
                 /\ \A j \in 1..(k - 1) : DigitValue[d[j]] = CIntMaxDigits[j]

\* int(part), for a digit string not above 2^31 - 1
RECURSIVE int(_)
int(part) ==
    IF part = <<>> THEN 0
    ELSE int(SubSeq(part, 1, Len(part) - 1)) * 10 + DigitValue[part[Len(part)]]

\* the exception time(int(part), 0) ends with, "ok" if none
ParseHour(part) ==
    IF ~IsInt(part) THEN "ValueError"
    ELSE IF ExceedsCInt(part) THEN "OverflowError"
    ELSE IF int(part) > 23 THEN "ValueError"
    ELSE "ok"

\* the exception the parsing of the slot (views.py:207-211) ends with
ParseSlot(slot) ==
    LET parts == split(slot)
    IN  IF Len(parts) # 2 THEN "ValueError"
        ELSE IF ParseHour(parts[1]) # "ok" THEN ParseHour(parts[1])
        ELSE ParseHour(parts[2])

\* datetime.strptime(date_str, '%Y-%m-%d').date(); 0 stands for ValueError
strptime(date_str) ==
    IF date_str = "2024-01-01" THEN 1
    ELSE IF date_str = "2024-01-02" THEN 2
    ELSE 0

\* faulty variant, for sensitivity: an empty room list is answered as an error
AvailableAnswer_EmptyIsError(room_list) ==
    IF room_list = {}
        THEN [op |-> "available", code |-> 404, reason |-> "NoAvailableRoom",
              id |-> NoId, rooms |-> {}]
        ELSE [op |-> "available", code |-> 200, reason |-> "Ok",
              id |-> NoId, rooms |-> room_list]

\* the answer to a valid query (views.py:251-258): a message when no room is
\* available, the room list otherwise, both with status 200
AvailableAnswer(room_list) ==
    IF room_list = {}
        THEN [op |-> "available", code |-> 200, reason |-> "NoAvailableRoom",
              id |-> NoId, rooms |-> {}]
        ELSE [op |-> "available", code |-> 200, reason |-> "Ok",
              id |-> NoId, rooms |-> room_list]

\* slot <<>> and date_str "" stand for an absent (or empty) query parameter;
\* an OverflowError is caught by no except clause of the handler: code 500
AvailableRoomsGet(p, slot, room_type, date_str, today) ==
    /\ pc[p] \in {"idle", "done"}
    /\ pc' = [pc EXCEPT ![p] = "done"]
    /\ inst' = [inst EXCEPT ![p] = NoInst]
    /\ LET answer(code, reason, room_list) ==
               resp' = [resp EXCEPT ![p] =
                          [op |-> "available", code |-> code, reason |-> reason,
                           id |-> NoId, rooms |-> room_list]]
           start_time == time(int(split(slot)[1]), 0, 0)
           end_time == time(int(split(slot)[2]), 0, 0)
           booking_date == IF date_str # "" THEN strptime(date_str) ELSE today
       IN  IF slot = <<>> THEN answer(400, "SlotRequired", {})
           ELSE IF ParseSlot(slot) = "ValueError"
               THEN answer(400, "InvalidSlotFormat", {})
           ELSE IF ParseSlot(slot) = "OverflowError"
               THEN answer(500, "OverflowError", {})
           ELSE IF date_str # "" /\ strptime(date_str) = 0
               THEN answer(400, "InvalidDateFormat", {})
           ELSE IF \/ start_time < time(OpenHour, 0, 0)
                   \/ end_time > time(CloseHour, 0, 0)
               THEN answer(400, "OutsideOperatingHours", {})
           ELSE IF Hour(end_time) - Hour(start_time) # 1
               THEN answer(400, "NonHourlyDuration", {})
           ELSE resp' = [resp EXCEPT ![p] =
                           AvailableAnswer(
                               get_available_rooms(bookings, members,
                                                   booking_date, start_time,
                                                   end_time, room_type))]
    /\ UNCHANGED <<bookings, members, rooms>>

(***************************************************************************)
(* Room.clean and the Room admin (RoomAdmin, a ModelAdmin: its form runs   *)
(* the field validators and Room.clean, and saves only when both pass)     *)
(***************************************************************************)
\* faulty variant, for sensitivity: the shared-desk test is left out
Room_clean_NoDeskTest(room_type, capacity) ==
    IF room_type = "private" /\ capacity # 1 THEN "PrivateCapacity"
    ELSE IF room_type = "conference" /\ capacity < 3 THEN "ConferenceCapacity"
    ELSE "ok"

\* the ValidationError Room.clean raises, "ok" if none
Room_clean(room_type, capacity) ==
    IF room_type = "private" /\ capacity # 1 THEN "PrivateCapacity"
    ELSE IF room_type = "conference" /\ capacity < 3 THEN "ConferenceCapacity"
    ELSE IF room_type = "shared_desk" /\ capacity # 4 THEN "SharedDeskCapacity"
    ELSE "ok"

\* Room.ROOM_TYPES, the choices of room_type
ROOM_TYPES == {"private", "conference", "shared_desk"}

\* the admin form of room id is submitted: a new room for id Len(rooms) + 1,
\* a change of the room otherwise; an invalid form saves nothing
RoomAdminSave(id, room_type, capacity) ==
    /\ id \in 1..(Len(rooms) + 1)
    /\ id <= MaxRooms
    /\ IF room_type \in ROOM_TYPES /\ Room_clean(room_type, capacity) = "ok"
          THEN rooms' = [r \in 1..(IF id > Len(rooms) THEN id ELSE Len(rooms)) |->
                            IF r = id THEN [room_type |-> room_type,
                                            capacity |-> capacity]
                                      ELSE rooms[r]]
          ELSE rooms' = rooms
    /\ UNCHANGED <<bookings, members, pc, inst, resp>>

(***************************************************************************)
(* Team roster edits (Team.members, a ManyToManyField)                     *)
(***************************************************************************)
TeamMembersAdd(t, u) ==
    /\ u \notin members[t]
    /\ members' = [members EXCEPT ![t] = @ \cup {u}]
    /\ UNCHANGED <<bookings, rooms, pc, inst, resp>>

TeamMembersRemove(t, u) ==
    /\ u \in members[t]
    /\ members' = [members EXCEPT ![t] = @ \ {u}]
    /\ UNCHANGED <<bookings, rooms, pc, inst, resp>>

(***************************************************************************)
(* Specifications                                                          *)
(***************************************************************************)
\* a request for date 1, 10:00-11:00
Slot(room_id, user_id, team_id) ==
    Request(room_id, user_id, team_id, 1, time(10, 0, 0), time(11, 0, 0))

\* users 1, 2 and teams 1, 2 on every room, and two malformed requests
CreateInputs ==
    {Slot(r, q[1], q[2]) :
        r \in RoomIds, q \in {<<1, NoId>>, <<2, NoId>>, <<NoId, 1>>, <<NoId, 2>>}}
    \cup {Slot(1, NoId, NoId), Slot(1, 1, 1)}

\* two users on the private room, and two malformed requests
SmallInputs ==
    {Slot(1, 1, NoId), Slot(1, 2, NoId), Slot(1, NoId, NoId), Slot(1, 1, 1)}

Step(W, inputs) ==
    \/ \E p \in W, data \in inputs : StartCreate(p, data)
    \/ \E p \in W : CreateCheckExisting(p)
    \/ \E p \in W : CreateClean(p)
    \/ \E p \in W : CreateInsert(p)
    \/ \E p \in W, id \in 1..MaxBookings : StartCancel(p, id)
    \/ \E p \in W : CancelClean(p)
    \/ \E p \in W : CancelSave(p)

\* concurrent handlers, all inputs
Next == Step(Workers, CreateInputs)

Spec == Init /\ [][Next]_vars

\* concurrent handlers, inputs of one room
NextSmall == Step(Workers, SmallInputs)

SpecSmall == Init /\ [][NextSmall]_vars

\* one handler at a time, all inputs
NextSeq == Step({1}, CreateInputs)

SpecSeq == Init /\ [][NextSeq]_vars

\* concurrent handlers on the shared desk, which team 1 (3 members) has
\* booked for the slot: one unit of its capacity is left
DeskInputs == {Slot(3, 1, NoId), Slot(3, 2, NoId)}

InitDesk ==
    /\ bookings = <<Row([room |-> 3, user |-> NoId, team |-> 1, date |-> 1,
                         start_time |-> time(10, 0, 0),
                         end_time |-> time(11, 0, 0),
                         status |-> "active"], 1)>>
    /\ members = InitMembers
    /\ rooms = InitRooms
    /\ pc = [p \in Workers |-> "idle"]
    /\ inst = [p \in Workers |-> NoInst]
    /\ resp = [p \in Workers |-> NoResp]

NextDesk == Step(Workers, DeskInputs)

SpecDesk == InitDesk /\ [][NextDesk]_vars

\* one handler at a time; users 1 and 2 on the private room and on the shared
\* desk, with start and end times in and out of the opening hours, on and off
\* the hour, with and without seconds
TimePairs ==
    { <<time(8, 0, 0), time(9, 0, 0)>>,
      <<time(8, 0, 0), time(7, 0, 0)>>,
      <<time(10, 0, 0), time(11, 0, 0)>>,
      <<time(10, 30, 0), time(11, 30, 0)>>,
      <<time(10, 0, 30), time(11, 0, 0)>>,
      <<time(10, 0, 0), time(10, 30, 0)>>,
      <<time(10, 0, 0), time(10, 0, 0)>>,
      <<time(11, 0, 0), time(10, 0, 0)>>,
      <<time(17, 30, 0), time(18, 30, 0)>> }

TimeInputs ==
    {Request(r, u, NoId, 1, t[1], t[2]) :
        r \in {1, 3}, u \in {1, 2}, t \in TimePairs}

NextTime == Step({1}, TimeInputs)

SpecTime == Init /\ [][NextTime]_vars

\* one handler at a time, while users 3 (aged 10) and 4 (aged 9) join and
\* leave team 1; team 1 asks for the conference room and the shared desk,
\* user 1 for the shared desk
RosterInputs == {Slot(2, NoId, 1), Slot(3, NoId, 1), Slot(3, 1, NoId)}

NextRoster ==
    \/ Step({1}, RosterInputs)
    \/ \E u \in {3, 4} : TeamMembersAdd(1, u)
    \/ \E u \in {3, 4} : TeamMembersRemove(1, u)

SpecRoster == Init /\ [][NextRoster]_vars

\* one handler at a time, all create inputs, and availability queries
SlotStrings ==
    { <<>>,
      <<"1", "0", "-", "1", "1">>,
      <<"0", "9", "-", "1", "0">>,
      <<"1", "7", "-", "1", "8">>,
      <<"8", "-", "9">>,
      <<"1", "8", "-", "1", "9">>,
      <<"1", "0", "-", "1", "2">>,
      <<"1", "1", "-", "1", "0">>,
      <<"2", "3", "-", "2", "4">>,
      <<"1", "0">>,
      <<"1", "0", "-">>,
      <<"-", "1", "-", "0">>,
      <<"1", "0", "-", "1", "1", "-", "1", "2">>,
      <<"a", "-", "b">>,
      <<"2", "1", "4", "7", "4", "8", "3", "6", "4", "7", "-", "1", "1">>,
      <<"2", "1", "4", "7", "4", "8", "3", "6", "4", "8", "-", "1", "1">>,
      <<"1", "0", "-", "9", "9", "9", "9", "9", "9", "9", "9", "9", "9", "9">> }

RoomTypeFilters == {"", "private", "conference", "shared_desk", "lounge"}

DateStrings == {"", "2024-01-01", "2024-01-02", "01/01/2024"}

\* <<slot, room_type, date, today>>: every slot string without further
\* parameters, and the slot 10-11 with every room type filter and date
AvailQueries ==
    {<<slot, "", "", 1>> : slot \in SlotStrings}
    \cup {<<(<<"1", "0", "-", "1", "1">>), room_type, date_str, today>> :
            room_type \in RoomTypeFilters, date_str \in DateStrings,
            today \in {1, 2}}

NextAvail ==
    \/ Step({1}, CreateInputs)
    \/ \E q \in AvailQueries : AvailableRoomsGet(1, q[1], q[2], q[3], q[4])

SpecAvail == Init /\ [][NextAvail]_vars

\* the Room admin alone, with every room type, a room type outside the
\* choices, and every capacity up to MaxCapacity
NextRoom ==
    \E id \in 1..MaxRooms, room_type \in ROOM_TYPES \cup {"lounge"},
       capacity \in 0..MaxCapacity :
        RoomAdminSave(id, room_type, capacity)

SpecRoom == Init /\ [][NextRoom]_vars

\* concurrent handlers: worker 1 queries the availability (private rooms with
\* a valid slot, no slot, an hour that fits no C int) while on the other
\* workers users 1 and 2 ask for the private room and cancel
QueryInputs ==
    { <<(<<"1", "0", "-", "1", "1">>), "private", "2024-01-01", 1>>,
      <<(<<>>), "", "", 1>>,
      <<(<<"2", "1", "4", "7", "4", "8", "3", "6", "4", "8", "-", "1", "1">>),
        "", "", 1>> }

NextQuery ==
    \/ Step(Workers \ {1}, {Slot(1, 1, NoId), Slot(1, 2, NoId)})
    \/ \E q \in QueryInputs : AvailableRoomsGet(1, q[1], q[2], q[3], q[4])

SpecQuery == Init /\ [][NextQuery]_vars

\* one handler at a time; requests name known and unknown rooms, users and
\* teams, inside and outside the opening hours
RefInputs ==
    {Request(room_id, user_id, team_id, 1, time(h, 0, 0), time(h + 1, 0, 0)) :
        room_id \in {1, 2, 9}, user_id \in {NoId, 1, 9},
        team_id \in {NoId, 1, 9}, h \in {8, 10}}

NextRef == Step({1}, RefInputs)

SpecRef == Init /\ [][NextRef]_vars

\* one handler at a time, cancels included, while the rosters and the
\* registry change under the bookings: team 1 books the conference room and
\* loses its member aged 10, team 2 books the shared desk and gains a fifth
\* member, user 1 books the private room, which is then made a conference room
CancelInputs == {Slot(1, 1, NoId), Slot(2, NoId, 1), Slot(3, NoId, 2)}

NextCancel ==
    \/ Step({1}, CancelInputs)
    \/ TeamMembersRemove(1, 3)
    \/ TeamMembersAdd(2, 5)
    \/ \E room_type \in {"private", "conference"}, capacity \in {1, 3} :
          RoomAdminSave(1, room_type, capacity)

SpecCancel == Init /\ [][NextCancel]_vars

TypeOK ==
    /\ Len(bookings) <= MaxBookings
    /\ \A p \in Workers : pc[p] \in {"idle", "create", "clean", "insert",
                                     "cancel_clean", "cancel_save", "done"}

(***************************************************************************)
(* Properties                                                              *)
(***************************************************************************)
Active(bks) == {i \in DOMAIN bks : bks[i].status = "active"}

\* ids of the active bookings of booking b's room and slot
ActiveOn(bks, b) == {i \in Active(bks) : SameSlot(bks[i], b)}

SameTime(b, c) ==
    /\ b.date = c.date
    /\ b.start_time = c.start_time
    /\ b.end_time = c.end_time

SameRequester(b, c) ==
    \/ b.user # NoId /\ b.user = c.user
    \/ b.team # NoId /\ b.team = c.team

DoneCreate(p) == pc[p] = "done" /\ resp[p].op = "create"

DoneCancel(p) == pc[p] = "done" /\ resp[p].op = "cancel"

\* worker p takes a step
Moves(p) == <<pc[p], inst[p], resp[p]>> # <<pc'[p], inst'[p], resp'[p]>>

\* C1: for every room and every (date, start_time, end_time), the occupancy
\* summed over the room's active bookings of that slot (the team's total
\* member count, 1 for a user) is at most the room's capacity.
C1_CapacityInvariant ==
    \A i \in Active(bookings) :
        SumOccupancy(bookings, members, ActiveOn(bookings, bookings[i]))
            <= RoomCapacity[bookings[i].room]

\* C2: no user and no team is referenced by two active bookings of the same
\* date, start_time and end_time.
C2_NoRequesterDoubleBooking ==
    \A i, j \in Active(bookings) :
        (i # j /\ SameTime(bookings[i], bookings[j]))
            => ~SameRequester(bookings[i], bookings[j])

\* C3: when two create requests by two different users for the same slot of a
\* shared desk with exactly one unit of capacity left have both ended, exactly
\* one was accepted and the other was rejected with CapacityExceeded.
C3_LastUnitRace ==
    \A p, q \in Workers :
        ( /\ p # q
          /\ DoneCreate(p) /\ DoneCreate(q)
          /\ RoomType[inst[p].room] = "shared_desk"
          /\ SameSlot(inst[p], inst[q])
          /\ inst[p].user # NoId /\ inst[q].user # NoId
          /\ inst[p].team = NoId /\ inst[q].team = NoId
          /\ inst[p].user # inst[q].user
          /\ SumOccupancy(bookings, members,
                 ActiveOn(bookings, inst[p]) \ {resp[p].id, resp[q].id})
               = RoomCapacity[inst[p].room] - 1 )
        => \/ resp[p].code = 201 /\ resp[q].reason = "CapacityExceeded"
           \/ resp[q].code = 201 /\ resp[p].reason = "CapacityExceeded"

\* C4: a create request for a shared desk, with a valid slot, by a requester
\* holding no active booking of that slot, is accepted if and only if the
\* occupancy of the desk's other active bookings of the slot plus the
\* candidate's occupancy is at most the desk's capacity.
C4_SharedDeskAdmission ==
    \A p \in Workers :
        ( /\ DoneCreate(p)
          /\ validate(Request(inst[p].room, inst[p].user, inst[p].team,
                              inst[p].date, inst[p].start_time,
                              inst[p].end_time)) = "ok"
          /\ RoomType[inst[p].room] = "shared_desk"
          /\ CleanTime(inst[p]) = "ok"
          /\ existing_booking(inst[p], bookings) \ {resp[p].id} = {} )
        => ( resp[p].code = 201
               <=> SumOccupancy(bookings, members,
                       ActiveOn(bookings, inst[p]) \ {resp[p].id})
                     + Occupancy(members, inst[p])
                   <= RoomCapacity[inst[p].room] )

Exclusive(room) == RoomType[room] \in {"private", "conference"}

\* a private or conference room holds at most one active booking per slot
AtMostOneActive ==
    \A i, j \in Active(bookings) :
        (Exclusive(bookings[i].room) /\ SameSlot(bookings[i], bookings[j]))
            => i = j

\* worker p's create request for a private or conference room, admitted by
\* every check, reaches the INSERT while the room has an active booking of
\* the slot
InsertOnTaken(p) ==
    /\ pc[p] = "insert"
    /\ pc'[p] = "done"
    /\ Exclusive(inst[p].room)
    /\ ActiveOn(bookings, inst[p]) # {}

C6_CancelActiveSucceeds ==
    \A p \in Workers :
        DoneCancel(p) =>
            /\ resp[p].reason \in {"Ok", "AlreadyCancelled", "NotFound"}
            /\ resp[p].reason = "AlreadyCancelled"
                  => bookings[resp[p].id].status = "cancelled"
            /\ resp[p].reason = "Ok"
                  => bookings[resp[p].id].status = "cancelled"

\* worker p receives a cancel request for booking id
CancelRequested(p, id) ==
    /\ pc[p] \in {"idle", "done"}
    /\ Moves(p)
    /\ \/ pc'[p] = "cancel_clean" /\ inst'[p].id = id
       \/ pc'[p] = "done" /\ resp'[p].op = "cancel" /\ resp'[p].id = id

\* C7: a cancel request for a booking that is already cancelled is rejected
\* with AlreadyCancelled (code 400) and leaves every booking, updated_at
\* included, unchanged.
C7_IdempotentCancel ==
    [][\A p \in Workers : \A id \in DOMAIN bookings :
          (CancelRequested(p, id) /\ bookings[id].status = "cancelled")
              => /\ pc'[p] = "done"
                 /\ resp'[p].reason = "AlreadyCancelled"
                 /\ resp'[p].code = 400
                 /\ bookings' = bookings]_vars

\* a cancel request for a cancelled booking has been answered
C7_Witness ==
    \E p \in Workers :
        /\ DoneCancel(p)
        /\ resp[p].reason = "AlreadyCancelled"
        /\ bookings[resp[p].id].status = "cancelled"

\* C8: a booking is never removed, its room, requester, date, start_time and
\* end_time never change, its status is active or cancelled, and a cancelled
\* booking stays cancelled.
C8_Lifecycle ==
    [][\A i \in DOMAIN bookings :
          /\ i \in DOMAIN bookings'
          /\ bookings'[i].room = bookings[i].room
          /\ bookings'[i].user = bookings[i].user
          /\ bookings'[i].team = bookings[i].team
          /\ bookings'[i].date = bookings[i].date
          /\ bookings'[i].start_time = bookings[i].start_time
          /\ bookings'[i].end_time = bookings[i].end_time
          /\ bookings'[i].status \in {"active", "cancelled"}
          /\ bookings[i].status = "cancelled"
                => bookings'[i].status = "cancelled"]_vars

\* a booking has been cancelled and written a second time by a concurrent
\* cancel request
C8_Witness ==
    \E i \in DOMAIN bookings : /\ bookings[i].status = "cancelled"
                               /\ bookings[i].updated_at > 2

\* C9: of two cancel requests for the same booking, at most one is answered Ok.
C9_CancelAtomicity ==
    \A p, q \in Workers :
        ( /\ p # q
          /\ DoneCancel(p) /\ DoneCancel(q)
          /\ resp[p].id = resp[q].id )
        => ~(resp[p].reason = "Ok" /\ resp[q].reason = "Ok")

ExactlyOneRequester(b) == (b.user = NoId) # (b.team = NoId)

\* worker p's create request ends
CreateEnds(p) == pc[p] # "done" /\ pc'[p] = "done" /\ resp'[p].op = "create"

\* C10: every stored booking has exactly one of user and team; a create
\* request with neither is rejected with MissingRequester, one with both with
\* AmbiguousRequester, and neither adds a booking.
C10_ExactlyOneRequester ==
    /\ [](\A i \in DOMAIN bookings : ExactlyOneRequester(bookings[i]))
    /\ [][\A p \in Workers :
            /\ (CreateEnds(p) /\ inst'[p].user = NoId /\ inst'[p].team = NoId)
                  => /\ resp'[p].reason = "MissingRequester"
                     /\ resp'[p].code = 400
                     /\ bookings' = bookings
            /\ (CreateEnds(p) /\ inst'[p].user # NoId /\ inst'[p].team # NoId)
                  => /\ resp'[p].reason = "AmbiguousRequester"
                     /\ resp'[p].code = 400
                     /\ bookings' = bookings]_vars

\* a request naming both user 1 and team 1 has been rejected while user 1
\* holds an active booking of the slot
C10_Witness ==
    \E p \in Workers :
        /\ DoneCreate(p)
        /\ inst[p].user # NoId /\ inst[p].team # NoId
        /\ resp[p].reason = "AmbiguousRequester"
        /\ \E i \in Active(bookings) : bookings[i].user = inst[p].user

\* the intervals of bookings b and c, of one date, have a moment in common
Overlap(b, c) ==
    /\ b.date = c.date
    /\ b.start_time < c.end_time
    /\ c.start_time < b.end_time

\* C11: two active bookings of one room whose intervals overlap have the same
\* start_time and end_time, and no requester holds two active bookings whose
\* intervals overlap.
C11_TimeGridOverlap ==
    \A i, j \in Active(bookings) :
        (i # j /\ Overlap(bookings[i], bookings[j])) =>
            /\ bookings[i].room = bookings[j].room
                  => SameTime(bookings[i], bookings[j])
            /\ ~SameRequester(bookings[i], bookings[j])

\* C12: every booking starts at or after 09:00, ends at or before 18:00,
\* starts before it ends and lasts exactly 60 minutes.
C12_TimeWindow ==
    \A i \in DOMAIN bookings :
        /\ bookings[i].start_time >= time(OpenHour, 0, 0)
        /\ bookings[i].end_time <= time(CloseHour, 0, 0)
        /\ bookings[i].start_time < bookings[i].end_time
        /\ bookings[i].end_time - bookings[i].start_time = time(0, SlotMinutes, 0)

\* the reason the time window of booking b is to be rejected with, "ok" if none
TimeWindowReason(b) ==
    IF \/ b.start_time < time(OpenHour, 0, 0)
       \/ b.end_time > time(CloseHour, 0, 0) THEN "OutsideOperatingHours"
    ELSE IF b.start_time >= b.end_time THEN "InvalidInterval"
    ELSE IF b.end_time - b.start_time # time(0, SlotMinutes, 0)
        THEN "NonHourlyDuration"
    ELSE "ok"

WellFormed(b) ==
    validate(Request(b.room, b.user, b.team, b.date, b.start_time, b.end_time))
        = "ok"

\* C13: a well-formed create request starting before 09:00 or ending after
\* 18:00 is rejected with OutsideOperatingHours; otherwise one with
\* start_time >= end_time with InvalidInterval; otherwise one not lasting
\* exactly 60 minutes with NonHourlyDuration; a request passing the three
\* tests is rejected with none of the three reasons.
C13_TimeWindowReasons ==
    [][\A p \in Workers :
          (CreateEnds(p) /\ WellFormed(inst'[p])) =>
              IF TimeWindowReason(inst'[p]) # "ok"
                  THEN /\ resp'[p].reason = TimeWindowReason(inst'[p])
                       /\ resp'[p].code = 400
                       /\ bookings' = bookings
                  ELSE resp'[p].reason \notin {"OutsideOperatingHours",
                                               "InvalidInterval",
                                               "NonHourlyDuration"}]_vars

\* the kind of b's requester does not suit the type of b's room
TypeMismatch(b) ==
    \/ RoomType[b.room] = "private" /\ b.team # NoId
    \/ RoomType[b.room] = "conference" /\ b.user # NoId

\* C14: every stored booking of a private room has a user and no team, every
\* stored booking of a conference room has a team and no user; a well-formed
\* create request with a valid time window by a team for a private room, or
\* by a user for a conference room, is rejected with RequesterTypeMismatch and
\* adds no booking; no request for a shared desk is rejected with
\* RequesterTypeMismatch.
C14_RoomRequesterType ==
    /\ [](\A i \in DOMAIN bookings :
            /\ RoomType[bookings[i].room] = "private"
                  => (bookings[i].user # NoId /\ bookings[i].team = NoId)
            /\ RoomType[bookings[i].room] = "conference"
                  => (bookings[i].team # NoId /\ bookings[i].user = NoId))
    /\ [][\A p \in Workers :
            /\ ( /\ CreateEnds(p)
                 /\ WellFormed(inst'[p])
                 /\ TimeWindowReason(inst'[p]) = "ok"
                 /\ TypeMismatch(inst'[p]) )
                  => /\ resp'[p].reason = "RequesterTypeMismatch"
                     /\ resp'[p].code = 400
                     /\ bookings' = bookings
            /\ (CreateEnds(p) /\ WellFormed(inst'[p])
                              /\ RoomType[inst'[p].room] = "shared_desk")
                  => resp'[p].reason # "RequesterTypeMismatch"]_vars

\* worker p holds a team's request for a conference room
ConferenceByTeam(p) ==
    /\ RoomType[inst[p].room] = "conference"
    /\ inst[p].team # NoId
    /\ inst[p].user = NoId
    /\ TimeWindowReason(inst[p]) = "ok"

\* C15: a team's create request for a conference room that is answered while
\* the team's effective size is below 3 is rejected with TeamTooSmall and adds
\* no booking; with an effective size of 3 or more the request passes the
\* model validation and, the room being free for the slot, is accepted.
C15_TeamEligibility ==
    [][\A p \in Workers :
          /\ ( /\ pc[p] \in {"create", "clean"}
               /\ pc'[p] = "done"
               /\ ConferenceByTeam(p)
               /\ get_effective_member_count(members, inst[p].team)
                     < MinEffectiveMembers )
                => /\ resp'[p].reason = "TeamTooSmall"
                   /\ resp'[p].code = 400
                   /\ bookings' = bookings
          /\ ( /\ pc[p] = "clean"
               /\ Moves(p)
               /\ ConferenceByTeam(p)
               /\ get_effective_member_count(members, inst[p].team)
                     < MinEffectiveMembers )
                => pc'[p] = "done"
          /\ ( /\ pc[p] = "clean"
               /\ Moves(p)
               /\ ConferenceByTeam(p)
               /\ get_effective_member_count(members, inst[p].team)
                     >= MinEffectiveMembers )
                => pc'[p] = "insert"
          /\ ( /\ pc[p] = "insert"
               /\ Moves(p)
               /\ ConferenceByTeam(p)
               /\ ActiveOn(bookings, inst[p]) = {} )
                => /\ resp'[p].code = 201
                   /\ Len(bookings') = Len(bookings) + 1]_vars

\* ids of the active bookings of room r for exactly (date, start, end)
ActiveAt(bks, r, date, start_time, end_time) ==
    {i \in Active(bks) : /\ bks[i].room = r
                         /\ bks[i].date = date
                         /\ bks[i].start_time = start_time
                         /\ bks[i].end_time = end_time}

\* the rooms that are available by the occupancy rule
AvailableByRule(bks, mem, date, start_time, end_time, room_type) ==
    {r \in RoomIds :
        /\ room_type # "" => RoomType[r] = room_type
        /\ LET occupancy == SumOccupancy(bks, mem,
                                ActiveAt(bks, r, date, start_time, end_time))
           IN  IF RoomType[r] = "shared_desk" THEN occupancy < RoomCapacity[r]
                                              ELSE occupancy = 0}

\* C16: an availability query that is answered with a room list returns
\* exactly the rooms of the filtered type whose occupancy by active bookings
\* of that exact slot is below the capacity (shared desk) or 0 (private,
\* conference).
C16_AvailabilityRule ==
    [][\A p \in Workers, q \in AvailQueries :
          ( /\ AvailableRoomsGet(p, q[1], q[2], q[3], q[4])
            /\ resp'[p].code = 200 )
          => resp'[p].rooms =
                AvailableByRule(bookings, members,
                                IF q[3] # "" THEN strptime(q[3]) ELSE q[4],
                                time(int(split(q[1])[1]), 0, 0),
                                time(int(split(q[1])[2]), 0, 0),
                                q[2])]_vars

\* booking b is a request by an eligible party: well-formed, with a valid time
\* window, of a requester kind that suits the room, by a team that is large
\* enough, fitting the remaining capacity, by a requester without an active
\* booking of the slot
Eligible(b, bks, mem) ==
    /\ WellFormed(b)
    /\ TimeWindowReason(b) = "ok"
    /\ ~TypeMismatch(b)
    /\ RoomType[b.room] = "conference"
          => get_effective_member_count(mem, b.team) >= MinEffectiveMembers
    /\ SumOccupancy(bks, mem, ActiveOn(bks, b)) + Occupancy(mem, b)
          <= RoomCapacity[b.room]
    /\ existing_booking(b, bks) = {}

\* C17: with no other request in between, a create request by an eligible
\* party is accepted if and only if the availability query for its date and
\* slot returns its room.
C17_AvailabilityCommit ==
    [][\A p \in Workers :
          (CreateEnds(p) /\ Eligible(inst'[p], bookings, members))
              => ( resp'[p].code = 201
                     <=> inst'[p].room \in
                           get_available_rooms(bookings, members, inst'[p].date,
                                               inst'[p].start_time,
                                               inst'[p].end_time, "") )]_vars

\* a user's request for the shared desk, which another user holds for the
\* slot and which the availability query does not return, has been rejected
C17_Witness ==
    /\ DoneCreate(1)
    /\ resp[1].code = 400
    /\ RoomType[inst[1].room] = "shared_desk"
    /\ Eligible(inst[1], bookings, members)
    /\ inst[1].room \notin get_available_rooms(bookings, members, inst[1].date,
                                                inst[1].start_time,
                                                inst[1].end_time, "")

\* both parts of the slot string are integers, 9 <= start, end <= 18 and
\* end - start = 1
SlotInFormat(slot) ==
    LET parts == split(slot)
    IN  /\ Len(parts) = 2
        /\ \A k \in 1..2 : IsInt(parts[k]) /\ Len(StripZeros(parts[k])) <= 2
        /\ int(parts[1]) >= OpenHour
        /\ int(parts[2]) <= CloseHour
        /\ int(parts[2]) - int(parts[1]) = 1

\* C19: an availability query with a well-formed (or no) date is answered
\* with a room list (code 200) if and only if its slot string is in the
\* format; every other query is answered with code 400 and no room list.
C19_SlotWireFormat ==
    [][\A p \in Workers, q \in AvailQueries :
          AvailableRoomsGet(p, q[1], q[2], q[3], q[4])
          => /\ resp'[p].code = 200
                  <=> ( /\ SlotInFormat(q[1])
                        /\ q[3] # "" => strptime(q[3]) # 0 )
             /\ resp'[p].code # 200
                  => (resp'[p].code = 400 /\ resp'[p].rooms = {})]_vars

\* the reason of the first failing check of request b among requester shape,
\* referential existence, time window, room/requester type compatibility and
\* team eligibility, in that order; "ok" if none fails
ReasonBeforeCapacity(b, mem) ==
    IF ~WellFormed(b)
        THEN validate(Request(b.room, b.user, b.team, b.date, b.start_time,
                              b.end_time))
    ELSE IF TimeWindowReason(b) # "ok" THEN TimeWindowReason(b)
    ELSE IF TypeMismatch(b) THEN "RequesterTypeMismatch"
    ELSE IF /\ RoomType[b.room] = "conference"
            /\ get_effective_member_count(mem, b.team) < MinEffectiveMembers
        THEN "TeamTooSmall"
    ELSE "ok"

\* C18: the checks of requester shape, referential existence, time window,
\* room/requester type compatibility and team eligibility come, in that order,
\* before the capacity and requester double-booking checks: a create request
\* failing one of them is rejected with the reason of the first that fails,
\* also when its requester already holds an active booking of the slot.
C18_CheckOrder ==
    [][\A p \in Workers :
          (CreateEnds(p) /\ ReasonBeforeCapacity(inst'[p], members) # "ok")
              => resp'[p].reason = ReasonBeforeCapacity(inst'[p], members)]_vars

\* booking b has the room, requester, date and times of request r
AsRequested(b, r) ==
    /\ b.room = r.room
    /\ b.user = r.user
    /\ b.team = r.team
    /\ b.date = r.date
    /\ b.start_time = r.start_time
    /\ b.end_time = r.end_time

\* C20: an accepted create request adds exactly one booking, with status
\* active and with the requested room, requester, date, start_time and
\* end_time, and changes no other booking; nothing else adds a booking.
C20_AcceptedCreate ==
    [][/\ \A p \in Workers :
            (CreateEnds(p) /\ resp'[p].code = 201)
                => /\ Len(bookings') = Len(bookings) + 1
                   /\ SubSeq(bookings', 1, Len(bookings)) = bookings
                   /\ resp'[p].id = Len(bookings')
                   /\ bookings'[Len(bookings')].status = "active"
                   /\ AsRequested(bookings'[Len(bookings')], inst[p])
       /\ Len(bookings') # Len(bookings)
            => \E p \in Workers : CreateEnds(p) /\ resp'[p].code = 201]_vars

\* a second booking has been added by an accepted create request
C20_Witness ==
    \E p \in Workers :
        /\ DoneCreate(p)
        /\ resp[p].code = 201
        /\ resp[p].id = 2
        /\ Len(bookings) = 2
        /\ AsRequested(bookings[2], inst[p])

\* the kind/capacity rule for a room
Coherent(room_type, capacity) ==
    /\ room_type = "private" => capacity = 1
    /\ room_type = "conference" => capacity >= 3
    /\ room_type = "shared_desk" => capacity = 4

\* C22: Room.clean accepts a room type and capacity if and only if private
\* implies capacity 1, conference implies capacity >= 3 and shared_desk
\* implies capacity 4; every room of the registry satisfies this.
C22_RoomCoherence ==
    /\ \A room_type \in ROOM_TYPES \cup {"lounge"}, capacity \in 0..MaxCapacity :
          Room_clean(room_type, capacity) = "ok" <=> Coherent(room_type, capacity)
    /\ \A r \in DOMAIN rooms : Coherent(rooms[r].room_type, rooms[r].capacity)

\* a conference room of the largest capacity has been added and room 1 has
\* been changed into a shared desk
C22_Witness ==
    /\ Len(rooms) = MaxRooms
    /\ rooms[MaxRooms] = [room_type |-> "conference", capacity |-> MaxCapacity]
    /\ rooms[1] = [room_type |-> "shared_desk", capacity |-> 4]

\* worker p's availability query is answered
QueryEnds(p) ==
    /\ Moves(p)
    /\ pc[p] \in {"idle", "done"}
    /\ pc'[p] = "done"
    /\ resp'[p].op = "available"

\* C21: answering an availability query changes no booking, no team roster
\* and no room, whatever its arguments and whatever the other handlers are
\* in the middle of; a valid query for which no room is available is answered
\* with status 200 and an empty room list.
C21_AvailabilityReadOnly ==
    [][\A p \in Workers :
          /\ QueryEnds(p)
                => /\ bookings' = bookings
                   /\ members' = members
                   /\ rooms' = rooms
                   /\ \A o \in Workers \ {p} : ~Moves(o)
          /\ \A q \in QueryInputs :
                ( /\ QueryEnds(p)
                  /\ AvailableRoomsGet(p, q[1], q[2], q[3], q[4])
                  /\ SlotInFormat(q[1])
                  /\ q[3] # "" => strptime(q[3]) # 0
                  /\ get_available_rooms(
                        bookings, members,
                        IF q[3] # "" THEN strptime(q[3]) ELSE q[4],
                        time(int(split(q[1])[1]), 0, 0),
                        time(int(split(q[1])[2]), 0, 0), q[2]) = {} )
                => /\ resp'[p].code = 200
                   /\ resp'[p].rooms = {}]_vars

\* a query for private rooms has been answered with status 200 and no room
\* while another handler is about to save the cancellation of the booking
\* that takes the room
C21_Witness ==
    \E p, o \in Workers :
        /\ pc[p] = "done"
        /\ resp[p].op = "available"
        /\ resp[p].code = 200
        /\ resp[p].rooms = {}
        /\ Active(bookings) # {}
        /\ pc[o] = "cancel_save"

\* C23: a team's total member count is the number of its members and its
\* effective member count is the number of its members aged 10 or more (a
\* member aged 9 is left out, a member aged exactly 10 is counted), so the
\* effective count never exceeds the total; both follow the roster: adding
\* a member raises the total by one and the effective count by one exactly
\* when the member is aged 10 or more, and removing a member lowers them
\* likewise.
C23_TeamMetrics ==
    [][\A t \in TeamIds :
          LET total == get_total_member_count(members, t)
              effective == get_effective_member_count(members, t)
              total_after == get_total_member_count(members', t)
              effective_after == get_effective_member_count(members', t)
              counted(u) == IF Age[u] > 9 THEN 1 ELSE 0
          IN  /\ total_after = Cardinality(members'[t])
              /\ effective_after + Cardinality({u \in members'[t] : Age[u] < 10})
                    = total_after
              /\ effective_after <= total_after
              /\ \A u \in UserIds :
                    /\ (u \notin members[t] /\ members'[t] = members[t] \cup {u})
                          => /\ total_after = total + 1
                             /\ effective_after = effective + counted(u)
                    /\ (u \in members[t] /\ members'[t] = members[t] \ {u})
                          => /\ total_after = total - 1
                             /\ effective_after = effective - counted(u)]_vars

\* the member aged 10 has left team 1 and the member aged 9 has joined it:
\* three members, two of them counted
C23_Witness ==
    /\ members[1] = {1, 2, 4}
    /\ Age[3] = 10 /\ Age[4] = 9
    /\ get_total_member_count(members, 1) = 3
    /\ get_effective_member_count(members, 1) = 2

\* booking b's room and slot hold a cancelled booking and no active one
FreedSlot(bks, b) ==
    /\ ActiveAt(bks, b.room, b.date, b.start_time, b.end_time) = {}
    /\ \E i \in DOMAIN bks : /\ bks[i].status = "cancelled"
                             /\ bks[i].room = b.room
                             /\ SameTime(bks[i], b)

\* requester, room type, team size and time window of b are acceptable and
\* its requester holds no active booking of the same date and slot
EligibleParty(b, bks, mem) ==
    /\ WellFormed(b)
    /\ TimeWindowReason(b) = "ok"
    /\ ~TypeMismatch(b)
    /\ RoomType[b.room] = "conference"
          => get_effective_member_count(mem, b.team) >= MinEffectiveMembers
    /\ Occupancy(mem, b) <= RoomCapacity[b.room]
    /\ ~\E i \in Active(bks) : SameRequester(bks[i], b) /\ SameTime(bks[i], b)

\* C24: a cancellation frees the slot. When a cancel succeeds, the booking
\* is no longer active and its room is returned by the availability query for
\* its date and slot; and as long as no booking has been accepted for that
\* room and slot since, a create request for it by an eligible party, the
\* former requester included, is accepted.
C24_CancellationFreesSlot ==
    [][\A p \in Workers :
          /\ (pc[p] = "cancel_save" /\ pc'[p] = "done" /\ resp'[p].code = 200)
                => /\ inst[p].id \notin Active(bookings')
                   /\ inst[p].room \in
                         get_available_rooms(bookings', members', inst[p].date,
                                             inst[p].start_time,
                                             inst[p].end_time, "")
          /\ ( /\ CreateEnds(p)
               /\ FreedSlot(bookings, inst'[p])
               /\ EligibleParty(inst'[p], bookings, members) )
                => resp'[p].code = 201]_vars

\* user 1 has booked the private room, cancelled, and booked the same room
\* and slot again
C24_Witness ==
    /\ Len(bookings) = 2
    /\ bookings[1].status = "cancelled"
    /\ bookings[2].status = "active"
    /\ bookings[1].room = 1 /\ bookings[2].room = 1
    /\ bookings[1].user = 1 /\ bookings[2].user = 1
    /\ SameTime(bookings[1], bookings[2])

\* worker p takes a step of a create request that does not end in acceptance
CreateStepNotAccepted(p) ==
    /\ Moves(p)
    /\ \/ pc'[p] \in {"create", "clean", "insert"}
       \/ /\ pc'[p] = "done"
          /\ resp'[p].op = "create"
          /\ resp'[p].code # 201

\* C25: a rejected create request leaves the ledger unchanged: no step of a
\* create request other than the one that ends in acceptance changes the
\* sequence of bookings or any booking's fields, whatever the rejection
\* (validation, requester already booked, capacity, uniqueness conflict at
\* the insert).
C25_RejectedCreateNoEffect ==
    [][\A p \in Workers : CreateStepNotAccepted(p) => bookings' = bookings]_vars

\* with one booking in the ledger, a request has been turned away by the
\* uniqueness constraint at its insert
C25_Witness ==
    \E p \in Workers :
        /\ DoneCreate(p)
        /\ resp[p].code = 400
        /\ resp[p].reason = "IntegrityError"
        /\ Len(bookings) = 1

\* worker p takes the first step of a create request; inst'[p] holds the
\* request
CreateRequested(p) ==
    /\ pc[p] \in {"idle", "done"}
    /\ Moves(p)
    /\ \/ pc'[p] = "create"
       \/ pc'[p] = "done" /\ resp'[p].op = "create"

\* worker p's request is turned away with the given reason by this step, and
\* no booking is added
TurnedAway(p, reason) ==
    /\ pc'[p] = "done"
    /\ resp'[p].code = 400
    /\ resp'[p].reason = reason
    /\ bookings' = bookings

C27_CancelUnknown ==
    [][\A p \in Workers : \A id \in 1..MaxBookings :
          (CancelRequested(p, id) /\ id \notin DOMAIN bookings)
              => /\ pc'[p] = "done"
                 /\ resp'[p].reason = "NotFound"
                 /\ resp'[p].code = 404
                 /\ bookings' = bookings]_vars

\* C28: an accepted create request changes nothing but the ledger, to which
\* it appends its one booking (the requested room, requester, date and slot,
\* active); a successful cancel changes nothing but the status and the update
\* time of the booking it names; every other booking and all rooms and team
\* rosters stay as they were.
C28_Frame ==
    [][\A p \in Workers :
          /\ (pc[p] = "insert" /\ pc'[p] = "done" /\ resp'[p].code = 201)
                => /\ Len(bookings') = Len(bookings) + 1
                   /\ SubSeq(bookings', 1, Len(bookings)) = bookings
                   /\ LET new == bookings'[Len(bookings')]
                      IN  /\ new.room = inst[p].room
                          /\ new.user = inst[p].user
                          /\ new.team = inst[p].team
                          /\ SameTime(new, inst[p])
                          /\ new.status = "active"
                   /\ members' = members
                   /\ rooms' = rooms
          /\ (pc[p] = "cancel_save" /\ pc'[p] = "done" /\ resp'[p].code = 200)
                => /\ DOMAIN bookings' = DOMAIN bookings
                   /\ \A i \in DOMAIN bookings :
                         IF i = inst[p].id
                            THEN bookings'[i] =
                                   [bookings[i] EXCEPT
                                      !.status = "cancelled",
                                      !.updated_at = bookings'[i].updated_at]
                            ELSE bookings'[i] = bookings[i]
                   /\ members' = members
                   /\ rooms' = rooms]_vars

\* of two bookings on different rooms the first has been cancelled and the
\* second is active
C28_Witness ==
    /\ Len(bookings) = 2
    /\ bookings[1].room # bookings[2].room
    /\ bookings[1].status = "cancelled"
    /\ bookings[2].status = "active"
    /\ \E p \in Workers : DoneCancel(p) /\ resp[p].code = 200 /\ resp[p].id = 1

\* C29: every request that has ended has ended with a value, a success
\* (200, 201) or a rejection (400, 404); none has ended in an unhandled
\* fault (500).
C29_RequestsComplete ==
    \A p \in Workers :
        pc[p] = "done" => /\ resp[p].op \in {"create", "cancel", "available"}
                          /\ resp[p].code \in {200, 201, 400, 404}

\* no two rows of the ledger agree on room, date, start, end and status
UniqueTogether(bks) ==
    \A i, j \in DOMAIN bks :
        (SameSlot(bks[i], bks[j]) /\ bks[i].status = bks[j].status) => i = j

\* worker p's insert or status change would give the ledger a second row
\* with its room, date, start, end and status
WouldDuplicate(p) ==
    /\ pc[p] \in {"insert", "cancel_save"}
    /\ pc'[p] = "done"
    /\ \E i \in DOMAIN bookings : /\ i # inst[p].id
                                  /\ SameSlot(bookings[i], inst[p])
                                  /\ bookings[i].status = inst[p].status

\* C30: in every reachable state each room, date and slot has at most one
\* active and at most one cancelled booking; an insert or a status change
\* that would add a second row with the same room, date, slot and status
\* fails (code 400) and leaves the ledger unchanged.
C30_StorageUniqueness ==
    /\ []UniqueTogether(bookings)
    /\ [][\A p \in Workers :
            WouldDuplicate(p) => /\ resp'[p].code = 400
                                 /\ resp'[p].reason = "IntegrityError"
                                 /\ bookings' = bookings]_vars

\* the room and slot hold a cancelled and an active booking, and the cancel
\* of the active one has been refused with the integrity error
C30_Witness ==
    /\ Len(bookings) = 2
    /\ SameSlot(bookings[1], bookings[2])
    /\ bookings[1].status = "cancelled"
    /\ bookings[2].status = "active"
    /\ \E p \in Workers : /\ DoneCancel(p)
                          /\ resp[p].id = 2
                          /\ resp[p].reason = "IntegrityError"

\* booking b, active bookings of other ids counted, fails one of the tests
\* of the model validation: time window, room and requester type, effective
\* team size of a conference room, occupancy of a shared desk
FailsValidation(b, bks, mem) ==
    \/ TimeWindowReason(b) # "ok"
    \/ TypeMismatch(b)
    \/ /\ RoomType[b.room] = "conference"
       /\ b.team # NoId
       /\ Cardinality({u \in mem[b.team] : Age[u] >= 10}) < 3
    \/ /\ RoomType[b.room] = "shared_desk"
       /\ SumOccupancy(bks, mem, {i \in ActiveOn(bks, b) : i # b.id})
            + Occupancy(mem, b) > RoomCapacity[b.room]

\* C31: a cancel validates before it writes. A cancel request for an active
\* booking that fails a test of the model validation against the rosters,
\* rooms and bookings of that moment is rejected (code 400) and goes on to the
\* save otherwise; a save that would give the ledger a second cancelled row of
\* the room and slot is rejected as well; a rejected cancel leaves every
\* booking as it was, the named one active; and a booking turns cancelled
\* only by the save of a cancel that named it.
C31_CancelRevalidates ==
    [][/\ \A p \in Workers :
            /\ pc[p] = "cancel_clean" /\ Moves(p)
                  => IF FailsValidation(inst[p], bookings, members)
                        THEN /\ pc'[p] = "done"
                             /\ resp'[p].op = "cancel"
                             /\ resp'[p].code = 400
                             /\ bookings' = bookings
                        ELSE /\ pc'[p] = "cancel_save"
                             /\ bookings' = bookings
            /\ (pc[p] = "cancel_save" /\ Moves(p)
                  /\ \E i \in DOMAIN bookings :
                        /\ i # inst[p].id
                        /\ SameSlot(bookings[i], inst[p])
                        /\ bookings[i].status = "cancelled")
                  => /\ resp'[p].code = 400
                     /\ bookings' = bookings
            /\ (pc'[p] = "done" /\ Moves(p) /\ resp'[p].op = "cancel"
                  /\ resp'[p].code # 200)
                  => bookings' = bookings
       /\ \A i \in DOMAIN bookings :
            (bookings[i].status = "active" /\ bookings'[i].status = "cancelled")
               => \E p \in Workers : /\ pc[p] = "cancel_save"
                                      /\ inst[p].id = i
                                      /\ resp'[p].code = 200]_vars

\* the cancel of the shared-desk booking of team 2, which has gained a fifth
\* member, has been rejected with CapacityExceeded and the booking is active
C31_Witness ==
    \E p \in Workers, i \in DOMAIN bookings :
        /\ DoneCancel(p)
        /\ resp[p].id = i
        /\ resp[p].code = 400
        /\ resp[p].reason = "CapacityExceeded"
        /\ bookings[i].status = "active"
        /\ bookings[i].team = 2
        /\ Cardinality(members[2]) = 5
====
